---- MODULE Spec2Model ----
(***************************************************************************)
(* State-machine model of the two cores of ba-agent:                       *)
(*   - server/api.js: repairJSON, getGroqCompletion (the staged JSON       *)
(*     recovery) and the routes generate-documents and breakdown-tasks;    *)
(*   - src/components/PlantUMLViewer.jsx: the viewer's resolve effect,     *)
(*     simplifyUml and the render decision.                                *)
(*                                                                         *)
(* A text is a sequence of one-character strings.  The alphabets the       *)
(* inputs are drawn from hold no backslash, sign, fraction or exponent     *)
(* character, so string escapes and non-integer numbers are outside the    *)
(* texts the operators below are applied to.                               *)
(***************************************************************************)
EXTENDS Integers, Sequences, FiniteSets, TLC

\* ------------------------------------------------------------------------
\* Characters and elementary text functions
\* ------------------------------------------------------------------------

DQ == "\""

SQ == "'"

\* The backquote character (the lexer of TLA+ accepts none inside a string).
BT == "BACKQUOTE"

NL == "\n"

\* The characters \s matches and String.prototype.trim strips (those of the
\* alphabets used here).
Ws == {" ", "\n", "\t", "\r"}

Digits == {"0", "1", "2", "3", "4", "5", "6", "7", "8", "9"}

\* The characters [a-zA-Z0-9_] matches, over the letters of the alphabets.
Letters ==
  {"a", "b", "c", "d", "e", "f", "g", "h", "i", "j", "k", "l", "m", "n",
   "o", "p", "q", "r", "s", "t", "u", "v", "w", "x", "y", "z", "A", "B",
   "C", "D", "E", "F", "G", "H", "I", "J", "K", "L", "M", "N", "O", "P",
   "Q", "R", "S", "T", "U", "V", "W", "X", "Y", "Z"}

WordChars == Letters \cup Digits \cup {"_"}

RECURSIVE Flatten(_)
Flatten(ss) == IF ss = <<>> THEN <<>> ELSE Head(ss) \o Flatten(Tail(ss))

RECURSIVE SkipWs(_, _)
\* The first index >= i of s that holds no whitespace (Len(s)+1 at the end).
SkipWs(s, i) == IF i <= Len(s) /\ s[i] \in Ws THEN SkipWs(s, i + 1) ELSE i

RECURSIVE SkipWsBack(_, _)
SkipWsBack(s, i) == IF i >= 1 /\ s[i] \in Ws THEN SkipWsBack(s, i - 1) ELSE i

\* String.prototype.trim
Trim(s) == SubSeq(s, SkipWs(s, 1), SkipWsBack(s, Len(s)))

RECURSIVE IndexFrom(_, _, _)
\* The first index >= i of s holding character c, 0 when there is none.
IndexFrom(s, c, i) ==
  IF i > Len(s) THEN 0 ELSE IF s[i] = c THEN i ELSE IndexFrom(s, c, i + 1)

RECURSIVE LastIndexFrom(_, _, _)
LastIndexFrom(s, c, i) ==
  IF i < 1 THEN 0 ELSE IF s[i] = c THEN i ELSE LastIndexFrom(s, c, i - 1)

\* Whether text lit occurs in s at index i.
LitAt(s, i, lit) ==
  /\ i + Len(lit) - 1 <= Len(s)
  /\ \A k \in 1..Len(lit) : s[i + k - 1] = lit[k]

\* ------------------------------------------------------------------------
\* JSON.parse and JSON.stringify
\* ------------------------------------------------------------------------
\* A parsed value is a pair <<tag, payload>>:
\*   <<"num", digits>>, <<"str", characters>>, <<"lit", characters>>,
\*   <<"arr", values>>, <<"obj", <<key, value>> pairs in insertion order>>.
\* A parse attempt yields [ok, v, p]: the value and the index after it, or
\* the index of the offending character.

ParseOk(v, n) == [ok |-> TRUE, v |-> v, p |-> n]

ParseFail(p) == [ok |-> FALSE, v |-> <<"undef", <<>>>>, p |-> p]

\* The characters an escape may name (those of the alphabets used here).
EscapeChars == {"n", DQ, "\\"}

RECURSIVE StringEnd(_, _)
\* The index of the quote closing a string whose characters start at j.
StringEnd(s, j) ==
  IF j > Len(s) THEN [ok |-> FALSE, p |-> j]
  ELSE IF s[j] = DQ THEN [ok |-> TRUE, p |-> j]
  ELSE IF s[j] \in {"\n", "\t", "\r"} THEN [ok |-> FALSE, p |-> j]
  ELSE IF s[j] = "\\"
    THEN IF j + 1 <= Len(s) /\ s[j + 1] \in EscapeChars THEN StringEnd(s, j + 2)
         ELSE [ok |-> FALSE, p |-> j + 1]
  ELSE StringEnd(s, j + 1)

RECURSIVE Unescape(_)
\* The characters a string token stands for.
Unescape(cs) ==
  IF cs = <<>> THEN <<>>
  ELSE IF Head(cs) = "\\" /\ Len(cs) > 1
    THEN <<IF cs[2] = "n" THEN NL ELSE cs[2]>> \o Unescape(SubSeq(cs, 3, Len(cs)))
  ELSE <<Head(cs)>> \o Unescape(Tail(cs))

RECURSIVE Escape(_)
\* The string token JSON.stringify writes for the characters cs.
Escape(cs) ==
  IF cs = <<>> THEN <<>>
  ELSE (IF Head(cs) = NL THEN <<"\\", "n">>
        ELSE IF Head(cs) \in {DQ, "\\"} THEN <<"\\", Head(cs)>>
        ELSE <<Head(cs)>>) \o Escape(Tail(cs))

RECURSIVE DigitsEnd(_, _)
DigitsEnd(s, j) == IF j <= Len(s) /\ s[j] \in Digits THEN DigitsEnd(s, j + 1) ELSE j

RECURSIVE ObjSet(_, _, _)
\* obj[k] = v on an object's member list: a repeated key keeps its first
\* place and takes the last value.
ObjSet(ms, k, v) ==
  IF ms = <<>> THEN << <<k, v>> >>
  ELSE IF Head(ms)[1] = k THEN << <<k, v>> >> \o Tail(ms)
  ELSE <<Head(ms)>> \o ObjSet(Tail(ms), k, v)

RECURSIVE LiteralMismatch(_, _, _, _)
\* The index where s, from i, stops agreeing with the literal lit (0: agrees).
LiteralMismatch(s, i, lit, k) ==
  IF k > Len(lit) THEN 0
  ELSE IF i + k - 1 > Len(s) \/ s[i + k - 1] # lit[k] THEN i + k - 1
  ELSE LiteralMismatch(s, i, lit, k + 1)

ParseLiteral(s, i, lit) ==
  LET m == LiteralMismatch(s, i, lit, 1)
  IN IF m = 0 THEN ParseOk(<<"lit", lit>>, i + Len(lit)) ELSE ParseFail(m)

RECURSIVE ParseValue(_, _)
RECURSIVE ParseElements(_, _, _)
RECURSIVE ParseMembers(_, _, _)

ParseValue(s, i0) ==
  LET i == SkipWs(s, i0)
  IN IF i > Len(s) THEN ParseFail(i)
     ELSE IF s[i] = "{"
       THEN LET j == SkipWs(s, i + 1)
            IN IF j <= Len(s) /\ s[j] = "}" THEN ParseOk(<<"obj", <<>>>>, j + 1)
               ELSE ParseMembers(s, j, <<>>)
     ELSE IF s[i] = "["
       THEN LET j == SkipWs(s, i + 1)
            IN IF j <= Len(s) /\ s[j] = "]" THEN ParseOk(<<"arr", <<>>>>, j + 1)
               ELSE ParseElements(s, j, <<>>)
     ELSE IF s[i] = DQ
       THEN LET e == StringEnd(s, i + 1)
            IN IF e.ok THEN ParseOk(<<"str", Unescape(SubSeq(s, i + 1, e.p - 1))>>, e.p + 1)
               ELSE ParseFail(e.p)
     ELSE IF s[i] = "0" THEN ParseOk(<<"num", <<"0">>>>, i + 1)
     ELSE IF s[i] \in Digits
       THEN LET e == DigitsEnd(s, i + 1)
            IN ParseOk(<<"num", SubSeq(s, i, e - 1)>>, e)
     ELSE IF s[i] = "n" THEN ParseLiteral(s, i, <<"n", "u", "l", "l">>)
     ELSE IF s[i] = "t" THEN ParseLiteral(s, i, <<"t", "r", "u", "e">>)
     ELSE IF s[i] = "f" THEN ParseLiteral(s, i, <<"f", "a", "l", "s", "e">>)
     ELSE ParseFail(i)

ParseElements(s, i, acc) ==
  LET r == ParseValue(s, i)
  IN IF ~r.ok THEN r
     ELSE LET acc2 == Append(acc, r.v)
              d == SkipWs(s, r.p)
          IN IF d > Len(s) THEN ParseFail(d)
             ELSE IF s[d] = "]" THEN ParseOk(<<"arr", acc2>>, d + 1)
             ELSE IF s[d] = "," THEN ParseElements(s, d + 1, acc2)
             ELSE ParseFail(d)

ParseMembers(s, i, acc) ==
  LET k == SkipWs(s, i)
  IN IF k > Len(s) \/ s[k] # DQ THEN ParseFail(k)
     ELSE LET e == StringEnd(s, k + 1)
          IN IF ~e.ok THEN ParseFail(e.p)
             ELSE LET c == SkipWs(s, e.p + 1)
                  IN IF c > Len(s) \/ s[c] # ":" THEN ParseFail(c)
                     ELSE LET r == ParseValue(s, c + 1)
                          IN IF ~r.ok THEN r
                             ELSE LET acc2 == ObjSet(acc, Unescape(SubSeq(s, k + 1, e.p - 1)), r.v)
                                      d == SkipWs(s, r.p)
                                  IN IF d > Len(s) THEN ParseFail(d)
                                     ELSE IF s[d] = "}" THEN ParseOk(<<"obj", acc2>>, d + 1)
                                     ELSE IF s[d] = "," THEN ParseMembers(s, d + 1, acc2)
                                     ELSE ParseFail(d)

\* JSON.parse(s): one value, whitespace around it, nothing after it.
ParseJSON(s) ==
  LET r == ParseValue(s, 1)
  IN IF ~r.ok THEN r
     ELSE LET e == SkipWs(s, r.p)
          IN IF e > Len(s) THEN r ELSE ParseFail(e)

\* The SyntaxError JSON.parse throws on s: its message names the offending
\* token and its position, and (in current V8) quotes the parsed text.
SyntaxErrorOf(s) ==
  LET r == ParseJSON(s)
  IN [name |-> "SyntaxError",
      pos |-> r.p - 1,
      tok |-> IF r.p > Len(s) THEN "end of JSON input" ELSE s[r.p],
      src |-> s]

\* error.message of a SyntaxError of JSON.parse
MessageOf(e) == [prefix |-> <<>>, pos |-> e.pos, tok |-> e.tok, src |-> e.src]

RECURSIVE Stringify(_)
RECURSIVE StringifyItems(_)
RECURSIVE StringifyMembers(_)

\* JSON.stringify(v) with no indent.
Stringify(v) ==
  IF v[1] = "str" THEN <<DQ>> \o Escape(v[2]) \o <<DQ>>
  ELSE IF v[1] = "arr" THEN <<"[">> \o StringifyItems(v[2]) \o <<"]">>
  ELSE IF v[1] = "obj" THEN <<"{">> \o StringifyMembers(v[2]) \o <<"}">>
  ELSE v[2]

StringifyItems(vs) ==
  IF vs = <<>> THEN <<>>
  ELSE Stringify(Head(vs))
       \o (IF Len(vs) > 1 THEN <<",">> ELSE <<>>)
       \o StringifyItems(Tail(vs))

StringifyMembers(ms) ==
  IF ms = <<>> THEN <<>>
  ELSE <<DQ>> \o Escape(Head(ms)[1]) \o <<DQ, ":">> \o Stringify(Head(ms)[2])
       \o (IF Len(ms) > 1 THEN <<",">> ELSE <<>>)
       \o StringifyMembers(Tail(ms))


\* ------------------------------------------------------------------------
\* server/api.js: repairJSON
\* ------------------------------------------------------------------------
\* A match of a pattern at index i: e is the index of its last character
\* (0: no match at i) and r the text that replaces it.

NoMatch == [e |-> 0, r |-> <<>>]

IsAt(s, i, c) == i >= 1 /\ i <= Len(s) /\ s[i] = c

RECURSIVE WordEnd(_, _)
WordEnd(s, j) == IF j <= Len(s) /\ s[j] \in WordChars THEN WordEnd(s, j + 1) ELSE j

\* The end of the run [^"]* starting at j.
NonDQRunEnd(s, j) ==
  LET stop == IndexFrom(s, DQ, j) IN IF stop = 0 THEN Len(s) ELSE stop - 1

\* /<[^>]+>/
MatchTag(s, i) ==
  IF s[i] = "<" /\ i + 1 <= Len(s) /\ s[i + 1] # ">" /\ IndexFrom(s, ">", i + 2) > 0
  THEN [e |-> IndexFrom(s, ">", i + 2), r |-> <<>>]
  ELSE NoMatch

\* /```json\n?/
MatchFenceJson(s, i) ==
  IF LitAt(s, i, <<BT, BT, BT, "j", "s", "o", "n">>)
  THEN [e |-> IF IsAt(s, i + 7, NL) THEN i + 7 ELSE i + 6, r |-> <<>>]
  ELSE NoMatch

\* /```\n?/
MatchFence(s, i) ==
  IF LitAt(s, i, <<BT, BT, BT>>)
  THEN [e |-> IF IsAt(s, i + 3, NL) THEN i + 3 ELSE i + 2, r |-> <<>>]
  ELSE NoMatch

\* /(['"])?([a-zA-Z0-9_]+)(['"])?\s*:/  ->  "$2":
MatchKey(s, i) ==
  LET a == IF s[i] \in {SQ, DQ} THEN i + 1 ELSE i
      w == WordEnd(s, a)
      b == IF w <= Len(s) /\ s[w] \in {SQ, DQ} THEN w + 1 ELSE w
      c == SkipWs(s, b)
  IN IF w > a /\ IsAt(s, c, ":")
     THEN [e |-> c, r |-> <<DQ>> \o SubSeq(s, a, w - 1) \o <<DQ, ":">>]
     ELSE NoMatch

\* /:\s*'([^']*)'/  ->  :"$1"
MatchSingleQuoted(s, i) ==
  LET q == SkipWs(s, i + 1)
      e == IndexFrom(s, SQ, q + 1)
  IN IF s[i] = ":" /\ IsAt(s, q, SQ) /\ e > 0
     THEN [e |-> e, r |-> <<":", DQ>> \o SubSeq(s, q + 1, e - 1) \o <<DQ>>]
     ELSE NoMatch

\* /:\s*"([^"]*)'/  ->  :"$1"   (the group runs to the last ' of the run)
MatchMismatched(s, i) ==
  LET q == SkipWs(s, i + 1)
      e == LastIndexFrom(s, SQ, NonDQRunEnd(s, q + 1))
  IN IF s[i] = ":" /\ IsAt(s, q, DQ) /\ e > q
     THEN [e |-> e, r |-> <<":", DQ>> \o SubSeq(s, q + 1, e - 1) \o <<DQ>>]
     ELSE NoMatch

\* /:\s*'([^"]*)/  ->  :"$1"
MatchOpenSingle(s, i) ==
  LET q == SkipWs(s, i + 1)
      e == NonDQRunEnd(s, q + 1)
  IN IF s[i] = ":" /\ IsAt(s, q, SQ)
     THEN [e |-> e, r |-> <<":", DQ>> \o SubSeq(s, q + 1, e) \o <<DQ>>]
     ELSE NoMatch

\* /,(\s*[}\]])/  ->  $1
MatchTrailingComma(s, i) ==
  LET b == SkipWs(s, i + 1)
  IN IF s[i] = "," /\ (IsAt(s, b, "}") \/ IsAt(s, b, "]"))
     THEN [e |-> b, r |-> SubSeq(s, i + 1, b)]
     ELSE NoMatch

\* /([}\]])\s*,\s*$/  ->  $1
MatchFinalComma(s, i) ==
  LET c == SkipWs(s, i + 1)
  IN IF s[i] \in {"}", "]"} /\ IsAt(s, c, ",") /\ SkipWs(s, c + 1) > Len(s)
     THEN [e |-> Len(s), r |-> <<s[i]>>]
     ELSE NoMatch

\* /x\s*y/ -> r, the shape of the four missing-comma patterns.
MatchPair(s, i, x, y, r) ==
  IF s[i] = x /\ IsAt(s, SkipWs(s, i + 1), y)
  THEN [e |-> SkipWs(s, i + 1), r |-> r]
  ELSE NoMatch

\* /}\s*{/  ->  },{
MatchObjObj(s, i) == MatchPair(s, i, "}", "{", <<"}", ",", "{">>)

\* /]\s*{/  ->  ,{
MatchArrObj(s, i) == MatchPair(s, i, "]", "{", <<",", "{">>)

\* /}\s*\[/  ->  ,[
MatchObjArr(s, i) == MatchPair(s, i, "}", "[", <<",", "[">>)

\* /]\s*\[/  ->  ,[
MatchArrArr(s, i) == MatchPair(s, i, "]", "[", <<",", "[">>)

\* /\s+/  ->  one space
MatchWs(s, i) ==
  IF s[i] \in Ws THEN [e |-> SkipWs(s, i) - 1, r |-> <<" ">>] ELSE NoMatch

MatchAt(rule, s, i) ==
  CASE rule = "tag" -> MatchTag(s, i)
    [] rule = "fenceJson" -> MatchFenceJson(s, i)
    [] rule = "fence" -> MatchFence(s, i)
    [] rule = "key" -> MatchKey(s, i)
    [] rule = "singleQuoted" -> MatchSingleQuoted(s, i)
    [] rule = "mismatched" -> MatchMismatched(s, i)
    [] rule = "openSingle" -> MatchOpenSingle(s, i)
    [] rule = "trailingComma" -> MatchTrailingComma(s, i)
    [] rule = "finalComma" -> MatchFinalComma(s, i)
    [] rule = "objObj" -> MatchObjObj(s, i)
    [] rule = "arrObj" -> MatchArrObj(s, i)
    [] rule = "objArr" -> MatchObjArr(s, i)
    [] rule = "arrArr" -> MatchArrArr(s, i)
    [] rule = "ws" -> MatchWs(s, i)

RECURSIVE ReplaceFrom(_, _, _)
\* String.prototype.replace with a global pattern: the matches are found
\* left to right, each search resuming after the previous match, and the
\* replaced text is never searched again.
ReplaceFrom(rule, s, i) ==
  IF i > Len(s) THEN <<>>
  ELSE LET m == MatchAt(rule, s, i)
       IN IF m.e > 0 THEN m.r \o ReplaceFrom(rule, s, m.e + 1)
          ELSE <<s[i]>> \o ReplaceFrom(rule, s, i + 1)

ReplaceAll(rule, s) == ReplaceFrom(rule, s, 1)

\* The text between the first { and the last }, when both exist.
SliceBraces(s) ==
  LET firstBrace == IndexFrom(s, "{", 1)
      lastBrace == LastIndexFrom(s, "}", Len(s))
  IN IF firstBrace # 0 /\ lastBrace # 0
     THEN (IF lastBrace < firstBrace THEN <<>> ELSE SubSeq(s, firstBrace, lastBrace))
     ELSE s

\* The transforms of repairJSON after the slice, in the order of the code.
RepairRules ==
  <<"key", "singleQuoted", "mismatched", "openSingle", "trailingComma",
    "finalComma", "objObj", "arrObj", "objArr", "arrArr", "ws">>

RECURSIVE ApplyRules(_, _)
ApplyRules(rules, s) ==
  IF rules = <<>> THEN s ELSE ApplyRules(Tail(rules), ReplaceAll(Head(rules), s))

repairJSON(str) ==
  Trim(ApplyRules(RepairRules,
         SliceBraces(ReplaceAll("fence", ReplaceAll("fenceJson", ReplaceAll("tag", str))))))

\* ------------------------------------------------------------------------
\* server/api.js: the balanced-brace extraction of getGroqCompletion
\* ------------------------------------------------------------------------

\* The pattern nests objects to this depth.
MaxNesting == 3

RECURSIVE MatchObjBody(_, _, _)
\* From j, inside an object opened at nesting depth: the index of the } that
\* closes it, 0 when the object does not close or nests too deep.
MatchObjBody(s, j, depth) ==
  IF j > Len(s) THEN 0
  ELSE IF s[j] = "}" THEN j
  ELSE IF s[j] = "{"
    THEN IF depth >= MaxNesting THEN 0
         ELSE LET e == MatchObjBody(s, j + 1, depth + 1)
              IN IF e = 0 THEN 0 ELSE MatchObjBody(s, e + 1, depth)
  ELSE MatchObjBody(s, j + 1, depth)

RECURSIVE MatchesFrom(_, _)
MatchesFrom(s, i) ==
  IF i > Len(s) THEN <<>>
  ELSE LET e == IF s[i] = "{" THEN MatchObjBody(s, i + 1, 1) ELSE 0
       IN IF e > 0 THEN <<SubSeq(s, i, e)>> \o MatchesFrom(s, e + 1)
          ELSE MatchesFrom(s, i + 1)

\* repairedContent.match(jsonRegex): the candidates in order of appearance
\* (the empty sequence stands for null).
JsonMatches(s) == MatchesFrom(s, 1)


\* ------------------------------------------------------------------------
\* src/components/PlantUMLViewer.jsx
\* ------------------------------------------------------------------------

PLANTUML_SERVER == "https://www.plantuml.com/plantuml"

PLANTUML_SERVER_BACKUP == "https://plantuml-server.kkeisuke.dev/svg"

\* The letters that have a lower-case form, each with it.
LetterCases ==
  <<<<"A", "a">>, <<"B", "b">>, <<"C", "c">>, <<"D", "d">>, <<"E", "e">>, <<"F", "f">>,
    <<"G", "g">>, <<"H", "h">>, <<"I", "i">>, <<"J", "j">>, <<"K", "k">>, <<"L", "l">>,
    <<"M", "m">>, <<"N", "n">>, <<"O", "o">>, <<"P", "p">>, <<"Q", "q">>, <<"R", "r">>,
    <<"S", "s">>, <<"T", "t">>, <<"U", "u">>, <<"V", "v">>, <<"W", "w">>, <<"X", "x">>,
    <<"Y", "y">>, <<"Z", "z">>>>

LowerChar(c) ==
  IF \E i \in 1..Len(LetterCases) : LetterCases[i][1] = c
  THEN LetterCases[CHOOSE i \in 1..Len(LetterCases) : LetterCases[i][1] = c][2]
  ELSE c

\* String.prototype.toLowerCase
ToLowerCase(s) == [i \in 1..Len(s) |-> LowerChar(s[i])]

\* String.prototype.includes
Includes(s, kw) == \E i \in 1..(Len(s) - Len(kw) + 1) : LitAt(s, i, kw)

StartMarker ==
  <<"@", "s", "t", "a", "r", "t", "u", "m", "l">>

EndMarker ==
  <<"@", "e", "n", "d", "u", "m", "l">>

KwActor ==
  <<"a", "c", "t", "o", "r">>

KwUsecase ==
  <<"u", "s", "e", "c", "a", "s", "e">>

KwParticipant ==
  <<"p", "a", "r", "t", "i", "c", "i", "p", "a", "n", "t">>

KwArrow ==
  <<"-", ">">>

KwStart ==
  <<"s", "t", "a", "r", "t">>

KwStop ==
  <<"s", "t", "o", "p">>

KwComponent ==
  <<"c", "o", "m", "p", "o", "n", "e", "n", "t">>

\* title || 'UML Diagram'
DefaultTitle ==
  <<"U", "M", "L", " ", "D", "i", "a", "g", "r", "a", "m">>

UsecaseBody ==
  <<NL, "a", "c", "t", "o", "r", " ", "U", "s", "e", "r", NL, "a", "c",
    "t", "o", "r", " ", "A", "d", "m", "i", "n", NL, "r", "e", "c", "t",
    "a", "n", "g", "l", "e", " ", "S", "y", "s", "t", "e", "m", " ", "{",
    NL, " ", " ", "u", "s", "e", "c", "a", "s", "e", " ", DQ, "U", "s",
    "e", " ", "C", "a", "s", "e", " ", "1", DQ, NL, " ", " ", "u", "s",
    "e", "c", "a", "s", "e", " ", DQ, "U", "s", "e", " ", "C", "a", "s",
    "e", " ", "2", DQ, NL, "}", NL, "U", "s", "e", "r", " ", "-", "-", ">",
    " ", "(", "U", "s", "e", " ", "C", "a", "s", "e", " ", "1", ")", NL,
    "A", "d", "m", "i", "n", " ", "-", "-", ">", " ", "(", "U", "s", "e",
    " ", "C", "a", "s", "e", " ", "2", ")", NL>>

SequenceBody ==
  <<NL, "p", "a", "r", "t", "i", "c", "i", "p", "a", "n", "t", " ", "U",
    "s", "e", "r", NL, "p", "a", "r", "t", "i", "c", "i", "p", "a", "n",
    "t", " ", "S", "y", "s", "t", "e", "m", NL, "p", "a", "r", "t", "i",
    "c", "i", "p", "a", "n", "t", " ", "D", "a", "t", "a", "b", "a", "s",
    "e", NL, "U", "s", "e", "r", " ", "-", ">", " ", "S", "y", "s", "t",
    "e", "m", ":", " ", "R", "e", "q", "u", "e", "s", "t", NL, "S", "y",
    "s", "t", "e", "m", " ", "-", ">", " ", "D", "a", "t", "a", "b", "a",
    "s", "e", ":", " ", "Q", "u", "e", "r", "y", NL, "D", "a", "t", "a",
    "b", "a", "s", "e", " ", "-", "-", ">", " ", "S", "y", "s", "t", "e",
    "m", ":", " ", "R", "e", "s", "p", "o", "n", "s", "e", NL, "S", "y",
    "s", "t", "e", "m", " ", "-", "-", ">", " ", "U", "s", "e", "r", ":",
    " ", "R", "e", "s", "u", "l", "t", NL>>

ActivityBody ==
  <<NL, "s", "t", "a", "r", "t", NL, ":", "P", "r", "o", "c", "e", "s",
    "s", " ", "T", "a", "s", "k", ";", NL, "i", "f", " ", "(", "C", "o",
    "n", "d", "i", "t", "i", "o", "n", ")", " ", "t", "h", "e", "n", " ",
    "(", "y", "e", "s", ")", NL, " ", " ", ":", "T", "a", "s", "k", " ",
    "A", ";", NL, "e", "l", "s", "e", " ", "(", "n", "o", ")", NL, " ",
    " ", ":", "T", "a", "s", "k", " ", "B", ";", NL, "e", "n", "d", "i",
    "f", NL, ":", "F", "i", "n", "a", "l", " ", "T", "a", "s", "k", ";",
    NL, "s", "t", "o", "p", NL>>

ComponentBody ==
  <<NL, "p", "a", "c", "k", "a", "g", "e", " ", DQ, "F", "r", "o", "n",
    "t", "e", "n", "d", DQ, " ", "{", NL, " ", " ", "[", "U", "I", " ",
    "C", "o", "m", "p", "o", "n", "e", "n", "t", "s", "]", NL, "}", NL,
    "p", "a", "c", "k", "a", "g", "e", " ", DQ, "B", "a", "c", "k", "e",
    "n", "d", DQ, " ", "{", NL, " ", " ", "[", "A", "P", "I", "]", NL, " ",
    " ", "[", "D", "a", "t", "a", "b", "a", "s", "e", "]", NL, "}", NL,
    "[", "U", "I", " ", "C", "o", "m", "p", "o", "n", "e", "n", "t", "s",
    "]", " ", "-", "-", ">", " ", "[", "A", "P", "I", "]", NL, "[", "A",
    "P", "I", "]", " ", "-", "-", ">", " ", "[", "D", "a", "t", "a", "b",
    "a", "s", "e", "]", NL>>

ClassBody ==
  <<NL, "c", "l", "a", "s", "s", " ", "U", "s", "e", "r", " ", "{", NL,
    " ", " ", "+", "u", "s", "e", "r", "n", "a", "m", "e", ":", " ", "S",
    "t", "r", "i", "n", "g", NL, " ", " ", "+", "e", "m", "a", "i", "l",
    ":", " ", "S", "t", "r", "i", "n", "g", NL, " ", " ", "+", "l", "o",
    "g", "i", "n", "(", ")", NL, "}", NL, "c", "l", "a", "s", "s", " ",
    "S", "y", "s", "t", "e", "m", " ", "{", NL, " ", " ", "+", "p", "r",
    "o", "c", "e", "s", "s", "R", "e", "q", "u", "e", "s", "t", "(", ")",
    NL, "}", NL, "U", "s", "e", "r", " ", "-", "-", " ", "S", "y", "s",
    "t", "e", "m", NL>>

\* A content prop: defined is FALSE for undefined or null.
Content(text) == [defined |-> TRUE, text |-> text]

Undefined == [defined |-> FALSE, text |-> <<>>]

\* A plausible slip: the participant keyword is not looked for.
DetectTypeArrowOnly(originalContent) ==
  LET lc == ToLowerCase(originalContent)
  IN IF Includes(lc, KwActor) \/ Includes(lc, KwUsecase) THEN "usecase"
     ELSE IF Includes(lc, KwArrow) THEN "sequence"
     ELSE IF Includes(lc, KwStart) /\ Includes(lc, KwStop) THEN "activity"
     ELSE IF Includes(lc, KwComponent) THEN "component"
     ELSE "class"

\* A plausible slip: the content is searched as it is written.
DetectTypeCaseSensitive(originalContent) ==
  LET lc == originalContent
  IN IF Includes(lc, KwActor) \/ Includes(lc, KwUsecase) THEN "usecase"
     ELSE IF Includes(lc, KwParticipant) \/ Includes(lc, KwArrow) THEN "sequence"
     ELSE IF Includes(lc, KwStart) /\ Includes(lc, KwStop) THEN "activity"
     ELSE IF Includes(lc, KwComponent) THEN "component"
     ELSE "class"

\* The diagram type simplifyUml detects in the lower-cased content.
DetectType(originalContent) ==
  LET lc == ToLowerCase(originalContent)
  IN IF Includes(lc, KwActor) \/ Includes(lc, KwUsecase) THEN "usecase"
     ELSE IF Includes(lc, KwParticipant) \/ Includes(lc, KwArrow) THEN "sequence"
     ELSE IF Includes(lc, KwStart) /\ Includes(lc, KwStop) THEN "activity"
     ELSE IF Includes(lc, KwComponent) THEN "component"
     ELSE "class"

TemplateBody(diagramType) ==
  CASE diagramType = "usecase" -> UsecaseBody
    [] diagramType = "sequence" -> SequenceBody
    [] diagramType = "activity" -> ActivityBody
    [] diagramType = "component" -> ComponentBody
    [] OTHER -> ClassBody

\* The minimal diagram of a type: the start marker, the title line, the
\* body of the type and the end marker.
Minimal(title, diagramType) ==
  StartMarker \o <<NL>> \o <<"t", "i", "t", "l", "e", " ">> \o (IF title # <<>> THEN title ELSE DefaultTitle)
  \o <<NL>> \o TemplateBody(diagramType) \o <<NL>> \o EndMarker

\* simplifyUml(originalContent): [threw, text]; toLowerCase of an undefined
\* content throws a TypeError.
simplifyUml(originalContent, title) ==
  IF ~originalContent.defined THEN [threw |-> TRUE, text |-> <<>>]
  ELSE [threw |-> FALSE, text |-> Minimal(title, DetectType(originalContent.text))]

\* A plausible slip: the markers are added without looking for them.
DelimitAlways(content) == StartMarker \o <<NL>> \o content \o <<NL>> \o EndMarker

\* processedContent: the markers the content lacks are added around it.
Delimit(content) ==
  (IF Includes(content, StartMarker) THEN <<>> ELSE StartMarker \o <<NL>>)
  \o content
  \o (IF Includes(content, EndMarker) THEN <<>> ELSE <<NL>> \o EndMarker)

\* plantumlEncoder.encode(text) when it returns: the payload of the URL, a
\* text determined by the text encoded (the library deflates and encodes it).
Encoded(text) == <<"~">> \o text

EmptyUrl == [base |-> "", sep |-> "", payload |-> <<>>]

\* `${PLANTUML_SERVER}/svg/${encoded}`
PrimaryUrl(encoded) == [base |-> PLANTUML_SERVER, sep |-> "/svg/", payload |-> encoded]

\* `${PLANTUML_SERVER_BACKUP}/${fallbackEncoded}`
BackupUrl(encoded) == [base |-> PLANTUML_SERVER_BACKUP, sep |-> "/", payload |-> encoded]

\* !content || content.trim().length === 0
IsEmptyContent(content) == ~content.defined \/ Len(Trim(content.text)) = 0

\* One call of the encoder, as the effect records it.
EncodeCall(branch, text, ok) == [branch |-> branch, text |-> text, ok |-> ok]

\* A plausible slip: a failed fallback clears the image.
EffectCatchClearsImage(st, content, title, message, calls, fallbackOk) ==
  LET fb == simplifyUml(content, title)
      failed == [st EXCEPT !.error = message, !.loading = FALSE, !.useFallback = TRUE,
                           !.threw = FALSE]
  IN IF fb.threw
     THEN [failed EXCEPT !.calls = calls, !.outcome = "none", !.imageUrl = EmptyUrl]
     ELSE IF fallbackOk
     THEN [failed EXCEPT !.imageUrl = BackupUrl(Encoded(fb.text)),
                         !.calls = Append(calls, EncodeCall("fallback", fb.text, TRUE)),
                         !.outcome = "fallback"]
     ELSE [failed EXCEPT !.calls = Append(calls, EncodeCall("fallback", fb.text, FALSE)),
                         !.outcome = "none", !.imageUrl = EmptyUrl]

\* The catch block of the effect: the error is set, then the fallback is
\* tried; a failure of the fallback is only logged.
EffectCatch(st, content, title, message, calls, fallbackOk) ==
  LET fb == simplifyUml(content, title)
      failed == [st EXCEPT !.error = message, !.loading = FALSE, !.useFallback = TRUE,
                           !.threw = FALSE]
  IN IF fb.threw
     THEN [failed EXCEPT !.calls = calls, !.outcome = "none"]
     ELSE IF fallbackOk
     THEN [failed EXCEPT !.imageUrl = BackupUrl(Encoded(fb.text)),
                         !.calls = Append(calls, EncodeCall("fallback", fb.text, TRUE)),
                         !.outcome = "fallback"]
     ELSE [failed EXCEPT !.calls = Append(calls, EncodeCall("fallback", fb.text, FALSE)),
                         !.outcome = "none"]

\* The effect of useEffect(..., [content]) on the component state st, with
\* the encoder returning (primaryOk, fallbackOk) or throwing on each attempt.
Effect(st, content, title, primaryOk, fallbackOk) ==
  IF IsEmptyContent(content)
  THEN EffectCatch(st, content, title, "Failed to generate diagram: Empty PlantUML content",
                   <<>>, fallbackOk)
  ELSE LET processedContent == Delimit(content.text)
       IN IF primaryOk
          THEN [st EXCEPT !.imageUrl = PrimaryUrl(Encoded(processedContent)),
                          !.loading = FALSE,
                          !.threw = FALSE,
                          !.calls = <<EncodeCall("primary", processedContent, TRUE)>>,
                          !.outcome = "primary"]
          ELSE EffectCatch(st, content, title, "Failed to generate diagram: encode failed",
                           <<EncodeCall("primary", processedContent, FALSE)>>, fallbackOk)

\* What the component returns: the spinner, the error text or the image.
Render(st) ==
  IF st.loading /\ ~st.useFallback THEN [view |-> "spinner", text |-> "", src |-> EmptyUrl]
  ELSE IF st.error # "" THEN [view |-> "error", text |-> st.error, src |-> EmptyUrl]
  ELSE [view |-> "image", text |-> "", src |-> st.imageUrl]

\* The content props: each body bare, with either marker and with both;
\* a blank text and an undefined content.
ViewerBodies ==
  {<<>>,
   <<"A", " ", "-", "-", " ", "B">>,
   <<"p", "a", "r", "t", "i", "c", "i", "p", "a", "n", "t", " ", "A">>,
   <<"a", "c", "t", "o", "r", " ", "X", NL, "p", "a", "r", "t", "i", "c",
     "i", "p", "a", "n", "t", " ", "A">>,
   <<"A", " ", "-", ">", " ", "B">>,
   <<"s", "t", "a", "r", "t", NL, "s", "t", "o", "p">>,
   <<":", "x", ";", NL, "s", "t", "o", "p">>,
   <<"c", "o", "m", "p", "o", "n", "e", "n", "t", " ", "C">>,
   <<"U", "s", "e", "C", "a", "s", "e", " ", "U">>,
   <<"s", "t", "a", "r", "t", NL, "A", " ", "-", ">", " ", "B", NL, "s", "t", "o", "p">>,
   <<"s", "t", "a", "r", "t", NL, "c", "o", "m", "p", "o", "n", "e", "n", "t", " ", "C", NL,
     "s", "t", "o", "p">>}

ViewerContents ==
  {Content(pre \o b \o suf) :
     pre \in {<<>>, StartMarker \o <<NL>>},
     b \in ViewerBodies,
     suf \in {<<>>, <<NL>> \o EndMarker}}
  \cup {Content(<<" ">>), Undefined}

ViewerTitles == {<<>>, <<"T">>}

\* ------------------------------------------------------------------------
\* State
\* ------------------------------------------------------------------------

VARIABLES
  gPc,        \* getGroqCompletion: "idle", "direct", "repair", "extract", "returned", "thrown"
  gRaw,       \* chatCompletion.choices[0]?.message?.content || ''
  gContent,   \* content after content.trim()
  gRepaired,  \* repairedContent
  gMatches,   \* matches
  gIdx,       \* the index of the next candidate of the for loop
  gTrace,     \* what the call has invoked so far, in order
  gResult,    \* the text the call returned
  gError,     \* the Error the call threw to its caller
  rIn,        \* repairJSON: the text it is applied to
  rOut1,      \* repairJSON(rIn)
  rOut2,      \* repairJSON(repairJSON(rIn))
  rApplied,   \* how many times repairJSON has been applied
  content,    \* PlantUMLViewer: the content prop
  title,      \* the title prop
  loading,    \* useState(true)
  error,      \* useState(null): "" stands for null
  imageUrl,   \* useState('')
  useFallback,  \* useState(false)
  mounted,    \* whether the effect has run
  effectThrew,  \* whether the last run of the effect threw outward
  encodeCalls,  \* the encoder calls of the last run of the effect
  outcome,    \* which encode of the last run succeeded: "primary", "fallback", "none"
  route,      \* the route handling a request: "idle" or its path
  reqBody,    \* req.body
  completion, \* the outcome of await getGroqCompletion(prompt)
  res         \* the response sent

normVars == <<gPc, gRaw, gContent, gRepaired, gMatches, gIdx, gTrace, gResult, gError>>

repairVars == <<rIn, rOut1, rOut2, rApplied>>

viewerVars ==
  <<content, title, loading, error, imageUrl, useFallback, mounted, effectThrew,
    encodeCalls, outcome>>

routeVars == <<route, reqBody, completion, res>>

vars == <<normVars, repairVars, viewerVars, routeVars>>

\* ------------------------------------------------------------------------
\* server/api.js: the values the routes handle
\* ------------------------------------------------------------------------
\* The routes work on values JSON.parse returned (see ParseValue).  A string
\* the code itself writes is <<"str", pieces>> with the literal as one piece.

JUndefined == <<"undef", <<>>>>

JNull == <<"lit", <<"n", "u", "l", "l">>>>

JTrue == <<"lit", <<"t", "r", "u", "e">>>>

JStr(pieces) == <<"str", pieces>>

JNum(digits) == <<"num", digits>>

JArr(items) == <<"arr", items>>

JObj(members) == <<"obj", members>>

\* The property names the routes read and write.
Key ==
  [requirements |-> <<"r", "e", "q", "u", "i", "r", "e", "m", "e", "n", "t", "s">>,
   documents |-> <<"d", "o", "c", "u", "m", "e", "n", "t", "s">>,
   tasks |-> <<"t", "a", "s", "k", "s">>,
   id |-> <<"i", "d">>,
   name |-> <<"n", "a", "m", "e">>,
   description |-> <<"d", "e", "s", "c", "r", "i", "p", "t", "i", "o", "n">>,
   estimatedHours |-> <<"e", "s", "t", "i", "m", "a", "t", "e", "d", "H", "o", "u", "r", "s">>,
   requiredSkills |-> <<"r", "e", "q", "u", "i", "r", "e", "d", "S", "k", "i", "l", "l", "s">>,
   srs |-> <<"s", "r", "s">>,
   frd |-> <<"f", "r", "d">>,
   brd |-> <<"b", "r", "d">>,
   umlDiagrams |-> <<"u", "m", "l", "D", "i", "a", "g", "r", "a", "m", "s">>,
   content |-> <<"c", "o", "n", "t", "e", "n", "t">>,
   type |-> <<"t", "y", "p", "e">>,
   error |-> <<"e", "r", "r", "o", "r">>,
   details |-> <<"d", "e", "t", "a", "i", "l", "s">>,
   rawResponse |-> <<"r", "a", "w", "R", "e", "s", "p", "o", "n", "s", "e">>,
   stack |-> <<"s", "t", "a", "c", "k">>]

\* Whether a value converts to true.
Truthy(v) ==
  CASE v[1] = "undef" -> FALSE
    [] v[1] = "lit" -> v = JTrue
    [] v[1] = "num" -> v[2] # <<"0">>
    [] v[1] = "str" -> v[2] # <<>>
    [] OTHER -> TRUE

\* Reading a property of it throws a TypeError.
IsNullish(v) == v = JUndefined \/ v = JNull

IsArray(v) == v[1] = "arr"

RECURSIVE MemberOf(_, _)
MemberOf(ms, k) ==
  IF ms = <<>> THEN JUndefined
  ELSE IF Head(ms)[1] = k THEN Head(ms)[2]
  ELSE MemberOf(Tail(ms), k)

\* v.k for a v that is not nullish: the member of an object, undefined on
\* any other value (the keys read here are no property of a primitive or an
\* array).
Get(v, k) == IF v[1] = "obj" THEN MemberOf(v[2], k) ELSE JUndefined

\* The outcome of a call: the value it returns or the message of what it
\* throws.
Returned(v) == [threw |-> FALSE, message |-> <<>>, v |-> v]

Threw(message) == [threw |-> TRUE, message |-> message, v |-> JUndefined]

\* The message of the TypeError that reading property prop of v throws.
ReadOfNullish(v, prop) ==
  <<"Cannot read properties of ", IF v = JNull THEN "null" ELSE "undefined",
    " (reading '", prop, "')">>

\* ------------------------------------------------------------------------
\* server/api.js: generatePlantUMLCode
\* ------------------------------------------------------------------------

\* description.split('\n')[0]
FirstLine(d) ==
  LET n == IndexFrom(d, NL, 1) IN IF n = 0 THEN d ELSE SubSeq(d, 1, n - 1)

\* description.split('\n').slice(1), as the text after the first line break
RestLines(d) ==
  LET n == IndexFrom(d, NL, 1) IN IF n = 0 THEN <<>> ELSE SubSeq(d, n + 1, Len(d))

\* One line of the use-case list: a line that starts with "-" after
\* trimming becomes a usecase statement.
UsecaseLine(line) ==
  IF Trim(line) # <<>> /\ Head(Trim(line)) = "-"
  THEN <<"  usecase ", DQ>> \o Trim(Tail(Trim(line))) \o <<DQ>>
  ELSE line

RECURSIVE UsecaseLines(_)
\* .map(line => ...).join('\n') over the lines of d
UsecaseLines(d) ==
  IF IndexFrom(d, NL, 1) = 0 THEN UsecaseLine(d)
  ELSE UsecaseLine(FirstLine(d)) \o <<NL>> \o UsecaseLines(RestLines(d))

\* The lines of the template between the title and the description's rest.
PlantUMLPreamble(kind) ==
  CASE kind = "usecase" ->
         <<"\nleft to right direction\nskinparam packageStyle rectangle\n\n",
           "' Actors\nactor User\nactor Admin\n\n' Use Cases\nrectangle System {\n">>
    [] kind = "sequence" ->
         <<"\nskinparam sequenceMessageAlign center\n",
           "skinparam responseMessageBelowArrow true\n\n",
           "participant User\nparticipant Frontend\nparticipant Backend\n",
           "participant Database\n\n">>
    [] kind = "class" ->
         <<"\nskinparam classAttributeIconSize 0\nskinparam classFontStyle bold\n",
           "skinparam classArrowColor #2688d4\n",
           "skinparam classBackgroundColor WhiteSmoke\n",
           "skinparam classBorderColor #2688d4\n\n">>
    [] kind = "activity" ->
         <<"\nskinparam ActivityBackgroundColor WhiteSmoke\n",
           "skinparam ActivityBorderColor #2688d4\n",
           "skinparam ActivityDiamondBackgroundColor WhiteSmoke\n",
           "skinparam ActivityDiamondBorderColor #2688d4\n\nstart\n">>
    [] kind = "component" ->
         <<"\nskinparam componentStyle uml2\nskinparam component {\n",
           "  BackgroundColor WhiteSmoke\n  BorderColor #2688d4\n",
           "  ArrowColor #2688d4\n}\n\n">>
    [] OTHER ->
         <<"\nskinparam defaultFontName Arial\nskinparam defaultFontSize 12\n\n">>

\* The lines of the template after the description's rest.
PlantUMLEnding(kind) ==
  CASE kind = "usecase" ->
         <<"\n}\n\n' Relationships\nUser --> (Login)\nUser --> (View Dashboard)\n",
           "Admin --> (Manage Users)\nAdmin --> (Configure System)\n\n@enduml">>
    [] kind = "activity" -> <<"\nstop\n\n@enduml">>
    [] OTHER -> <<"\n\n@enduml">>

\* The case of the switch that type.toLowerCase() selects.
PlantUMLKind(type) ==
  LET lc == ToLowerCase(type)
  IN IF lc = KwUsecase THEN "usecase"
     ELSE IF lc = <<"s", "e", "q", "u", "e", "n", "c", "e">> THEN "sequence"
     ELSE IF lc = <<"c", "l", "a", "s", "s">> THEN "class"
     ELSE IF lc = <<"a", "c", "t", "i", "v", "i", "t", "y">> THEN "activity"
     ELSE IF lc = KwComponent THEN "component"
     ELSE "default"

\* generatePlantUMLCode(description, type): [threw, v].  type.toLowerCase
\* and description.split exist on strings only.
generatePlantUMLCode(description, type) ==
  IF type[1] # "str"
    THEN Threw(IF IsNullish(type) THEN ReadOfNullish(type, "toLowerCase")
               ELSE <<"type.toLowerCase is not a function">>)
  ELSE IF description[1] # "str"
    THEN Threw(IF IsNullish(description) THEN ReadOfNullish(description, "split")
               ELSE <<"description.split is not a function">>)
  ELSE LET kind == PlantUMLKind(type[2])
           d == description[2]
       IN Returned(JStr(<<"@startuml\ntitle ">> \o FirstLine(d) \o PlantUMLPreamble(kind)
                      \o (IF kind = "usecase" THEN
                            (IF IndexFrom(d, NL, 1) = 0 THEN <<>> ELSE UsecaseLines(RestLines(d)))
                          ELSE RestLines(d))
                      \o PlantUMLEnding(kind)))


\* ------------------------------------------------------------------------
\* server/api.js: POST /api/generate-documents
\* ------------------------------------------------------------------------

\* res.status(status).json(body)
Response(status, body) == [status |-> status, body |-> body]

\* getGroqCompletion was not called.
NotCalled == [threw |-> FALSE, message |-> <<>>, v |-> <<"none">>]

\* {...diagram}: the own members of an object; a number or a literal has
\* none.
Spread(diagram) == IF diagram[1] = "obj" THEN diagram[2] ELSE <<>>

\* The callback of result.umlDiagrams.map.
MapDiagram(diagram) ==
  IF IsNullish(diagram) THEN Threw(ReadOfNullish(diagram, "content"))
  ELSE IF Truthy(Get(diagram, Key.content))
    THEN Returned(JObj(ObjSet(Spread(diagram), Key.content, Get(diagram, Key.content))))
  ELSE LET g == generatePlantUMLCode(Get(diagram, Key.description), Get(diagram, Key.type))
       IN IF g.threw THEN g
          ELSE Returned(JObj(ObjSet(Spread(diagram), Key.content, g.v)))

RECURSIVE MapDiagrams(_)
\* result.umlDiagrams.map(...): the first entry that throws ends the map.
MapDiagrams(ds) ==
  IF ds = <<>> THEN Returned(<<>>)
  ELSE LET h == MapDiagram(Head(ds))
       IN IF h.threw THEN h
          ELSE LET t == MapDiagrams(Tail(ds))
               IN IF t.threw THEN t ELSE Returned(<<h.v>> \o t.v)

\* A plausible slip: brd is not looked at.
ValidStructureWithoutBrd(result) ==
  /\ Truthy(Get(result, Key.srs))
  /\ Truthy(Get(result, Key.frd))
  /\ IsArray(Get(result, Key.umlDiagrams))

\* The negation of the condition that throws 'Invalid response structure
\* from AI'.
ValidStructure(result) ==
  /\ Truthy(Get(result, Key.srs))
  /\ Truthy(Get(result, Key.frd))
  /\ Truthy(Get(result, Key.brd))
  /\ IsArray(Get(result, Key.umlDiagrams))

\* The response of the inner catch.
ParseFailure(message, text) ==
  Response(500, JObj(<< <<Key.error, JStr(<<"Failed to parse AI response">>)>>,
                        <<Key.details, JStr(message)>>,
                        <<Key.rawResponse, JStr(text)>> >>))

\* The inner try on the completion text.
ProcessDocuments(text) ==
  LET p == ParseJSON(text)
  IN IF ~p.ok THEN ParseFailure(<<MessageOf(SyntaxErrorOf(text))>>, text)
     ELSE IF IsNullish(p.v)
       THEN ParseFailure(ReadOfNullish(p.v, "umlDiagrams"), text)
     ELSE LET uml == Get(p.v, Key.umlDiagrams)
              mapped == IF IsArray(uml) THEN MapDiagrams(uml[2]) ELSE Returned(<<>>)
              result == IF IsArray(uml)
                        THEN JObj(ObjSet(p.v[2], Key.umlDiagrams, JArr(mapped.v)))
                        ELSE p.v
          IN IF mapped.threw THEN ParseFailure(mapped.message, text)
             ELSE IF ~ValidStructure(result)
               THEN ParseFailure(<<"Invalid response structure from AI">>, text)
             ELSE Response(200, result)

\* The handler, on the request body and what awaiting getGroqCompletion gave.
GenerateDocumentsHandler(body, awaited) ==
  IF ~Truthy(Get(body, Key.requirements))
    THEN Response(400, JObj(<< <<Key.error, JStr(<<"Requirements are required">>)>> >>))
  ELSE IF awaited.threw
    THEN Response(500,
           JObj(<< <<Key.error, JStr(awaited.message)>>,
                   <<Key.stack, JStr(<<"Error: ">> \o awaited.message)>>,
                   <<Key.details, JStr(<<"Error occurred while processing the request">>)>> >>))
  ELSE ProcessDocuments(awaited.v)

\* ------------------------------------------------------------------------
\* server/api.js: POST /api/breakdown-tasks
\* ------------------------------------------------------------------------

Task(id, name, description, estimatedHours, requiredSkills) ==
  JObj(<< <<Key.id, id>>, <<Key.name, name>>, <<Key.description, description>>,
          <<Key.estimatedHours, estimatedHours>>, <<Key.requiredSkills, requiredSkills>> >>)

\* The single task used when the result is neither an array nor holds one.
DefaultTasks ==
  <<Task(JStr(<<"1">>), JStr(<<"Review Requirements">>),
         JStr(<<"Review the provided documentation and break down into actionable tasks.">>),
         JNum(<<"4">>),
         JArr(<<JStr(<<"Business Analysis">>), JStr(<<"Project Management">>)>>))>>

fallbackTasks ==
  <<Task(JStr(<<"fallback_1">>), JStr(<<"Review Project Requirements">>),
         JStr(<<"Review the documentation and identify key technical requirements.">>),
         JNum(<<"4">>),
         JArr(<<JStr(<<"Business Analysis">>), JStr(<<"Technical Documentation">>)>>)),
    Task(JStr(<<"fallback_2">>), JStr(<<"Create Technical Implementation Plan">>),
         JStr(<<"Develop a technical plan based on project requirements.">>),
         JNum(<<"8">>),
         JArr(<<JStr(<<"Project Management">>), JStr(<<"Technical Architecture">>)>>))>>

emergencyFallbackTasks ==
  <<Task(JStr(<<"emergency_1">>), JStr(<<"Document Review">>),
         JStr(<<"Review project requirements and documents.">>),
         JNum(<<"4">>),
         JArr(<<JStr(<<"Documentation">>), JStr(<<"Analysis">>)>>))>>

\* A plausible slip: estimatedHours falls back with || like its neighbours.
ValidateTaskHoursByTruthiness(task, index) ==
  Task(IF Truthy(Get(task, Key.id)) THEN Get(task, Key.id)
       ELSE JStr(<<"task_", ToString(index + 1)>>),
       IF Truthy(Get(task, Key.name)) THEN Get(task, Key.name)
       ELSE JStr(<<"Task ", ToString(index + 1)>>),
       IF Truthy(Get(task, Key.description)) THEN Get(task, Key.description)
       ELSE JStr(<<"No description provided">>),
       IF Truthy(Get(task, Key.estimatedHours)) THEN Get(task, Key.estimatedHours)
       ELSE JNum(<<"4">>),
       IF IsArray(Get(task, Key.requiredSkills)) THEN Get(task, Key.requiredSkills)
       ELSE JArr(<<JStr(<<"General">>)>>))

\* The callback of tasks.map, on a task that is not nullish.
ValidateTask(task, index) ==
  Task(IF Truthy(Get(task, Key.id)) THEN Get(task, Key.id)
       ELSE JStr(<<"task_", ToString(index + 1)>>),
       IF Truthy(Get(task, Key.name)) THEN Get(task, Key.name)
       ELSE JStr(<<"Task ", ToString(index + 1)>>),
       IF Truthy(Get(task, Key.description)) THEN Get(task, Key.description)
       ELSE JStr(<<"No description provided">>),
       IF Get(task, Key.estimatedHours)[1] = "num" THEN Get(task, Key.estimatedHours)
       ELSE JNum(<<"4">>),
       IF IsArray(Get(task, Key.requiredSkills)) THEN Get(task, Key.requiredSkills)
       ELSE JArr(<<JStr(<<"General">>)>>))

TasksResponse(tasks) == Response(200, JObj(<< <<Key.tasks, JArr(tasks)>> >>))

\* The inner try on the completion text; whatever it throws ends in the
\* inner catch, which answers with fallbackTasks.
ProcessTasks(text) ==
  LET p == ParseJSON(text)
  IN IF ~p.ok \/ IsNullish(p.v) THEN TasksResponse(fallbackTasks)
     ELSE LET tasks == IF IsArray(p.v) THEN p.v[2]
                       ELSE IF Truthy(Get(p.v, Key.tasks)) /\ IsArray(Get(p.v, Key.tasks))
                         THEN Get(p.v, Key.tasks)[2]
                       ELSE DefaultTasks
          IN IF \E i \in 1..Len(tasks) : IsNullish(tasks[i])
               THEN TasksResponse(fallbackTasks)
             ELSE TasksResponse([i \in 1..Len(tasks) |-> ValidateTask(tasks[i], i - 1)])

\* The handler, on the request body and what awaiting getGroqCompletion gave.
BreakdownTasksHandler(body, awaited) ==
  IF ~Truthy(Get(body, Key.documents))
    THEN Response(400,
           JObj(<< <<Key.error, JStr(<<"Documents are required">>)>>,
                   <<Key.details,
                     JStr(<<"The request body must contain documents object">>)>> >>))
  ELSE IF awaited.threw
    THEN Response(200, JObj(<< <<Key.tasks, JArr(emergencyFallbackTasks)>>,
                               <<Key.error, JStr(awaited.message)>> >>))
  ELSE ProcessTasks(awaited.v)

\* The route layer at rest: no request is being handled.
RouteIdle ==
  /\ route = "idle"
  /\ reqBody = JUndefined
  /\ completion = NotCalled
  /\ res = Response(0, JUndefined)


\* ------------------------------------------------------------------------
\* server/api.js: getGroqCompletion
\* ------------------------------------------------------------------------

\* The raw completions: up to MaxChunks chunks of NormChunks, concatenated.
MaxChunks == 4

NormChunks ==
  {<<"{">>, <<"}">>, <<DQ, "a", DQ, ":">>, <<DQ, "a", DQ>>, <<"1">>, <<",">>, <<" ">>,
   <<"{", "1", "}">>}

RECURSIVE ChunkSeqs(_, _)
ChunkSeqs(chunks, n) ==
  IF n = 0 THEN {<<>>}
  ELSE LET shorter == ChunkSeqs(chunks, n - 1)
       IN shorter \cup {Append(q, c) : q \in {x \in shorter : Len(x) = n - 1}, c \in chunks}

RawCompletions == {Flatten(q) : q \in ChunkSeqs(NormChunks, MaxChunks)}

NoError == [name |-> "none", message |-> [prefix |-> <<>>, pos |-> 0, tok |-> "", src |-> <<>>]]

\* new Error(`${text}${message}`)
WrapError(text, message) ==
  [name |-> "Error", message |-> [message EXCEPT !.prefix = <<text>> \o @]]

\* One entry of gTrace.
Invoked(op, stage, text, ok) == [op |-> op, stage |-> stage, text |-> text, ok |-> ok]

NormIdle ==
  /\ gPc = "idle"
  /\ gRaw = <<>>
  /\ gContent = <<>>
  /\ gRepaired = <<>>
  /\ gMatches = <<>>
  /\ gIdx = 0
  /\ gTrace = <<>>
  /\ gResult = <<>>
  /\ gError = NoError

RepairIdle ==
  /\ rIn = <<>>
  /\ rOut1 = <<>>
  /\ rOut2 = <<>>
  /\ rApplied = 0

\* groq.chat.completions.create rejects: the outer catch rethrows it wrapped.
ServiceFails ==
  /\ gPc = "idle"
  /\ gPc' = "thrown"
  /\ gError' = WrapError("Groq API Error: ",
                  [prefix |-> <<"service error">>, pos |-> 0, tok |-> "", src |-> <<>>])
  /\ UNCHANGED <<gRaw, gContent, gRepaired, gMatches, gIdx, gTrace, gResult>>

\* The completion arrives: content is taken and trimmed.
Receive ==
  /\ gPc = "idle"
  /\ \E raw \in RawCompletions :
       /\ gRaw' = raw
       /\ gContent' = Trim(raw)
  /\ gPc' = "direct"
  /\ UNCHANGED <<gRepaired, gMatches, gIdx, gTrace, gResult, gError>>

\* A plausible slip: the text is repaired before its first parse.
DirectParseAfterRepair ==
  /\ gPc = "direct"
  /\ LET repaired == repairJSON(gContent)
         r == ParseJSON(repaired)
     IN /\ gTrace' = gTrace \o <<Invoked("repairJSON", "repair", repaired, TRUE),
                                  Invoked("JSON.parse", "direct", repaired, r.ok)>>
        /\ IF r.ok
           THEN gPc' = "returned" /\ gResult' = Stringify(r.v)
           ELSE gPc' = "repair" /\ UNCHANGED gResult
  /\ UNCHANGED <<gRaw, gContent, gRepaired, gMatches, gIdx, gError>>

\* try { return JSON.stringify(JSON.parse(content)) } catch (initialParseError)
DirectParse ==
  /\ gPc = "direct"
  /\ LET r == ParseJSON(gContent)
     IN /\ gTrace' = Append(gTrace, Invoked("JSON.parse", "direct", gContent, r.ok))
        /\ IF r.ok
           THEN gPc' = "returned" /\ gResult' = Stringify(r.v)
           ELSE gPc' = "repair" /\ UNCHANGED gResult
  /\ UNCHANGED <<gRaw, gContent, gRepaired, gMatches, gIdx, gError>>

\* repairJSON(content), the parse of the repaired text and, when that fails,
\* repairedContent.match(jsonRegex).
RepairParse ==
  /\ gPc = "repair"
  /\ LET repaired == repairJSON(gContent)
         r == ParseJSON(repaired)
         t == gTrace \o <<Invoked("repairJSON", "repair", repaired, TRUE),
                          Invoked("JSON.parse", "repair", repaired, r.ok)>>
     IN /\ gRepaired' = repaired
        /\ IF r.ok
           THEN /\ gPc' = "returned"
                /\ gResult' = Stringify(r.v)
                /\ gTrace' = t
                /\ UNCHANGED <<gMatches, gIdx>>
           ELSE /\ gPc' = "extract"
                /\ gMatches' = JsonMatches(repaired)
                /\ gIdx' = 1
                /\ gTrace' = Append(t, Invoked("match", "extract", repaired, TRUE))
                /\ UNCHANGED gResult
  /\ UNCHANGED <<gRaw, gContent, gError>>

\* One turn of for (const match of matches): return the first that parses.
TryCandidate ==
  /\ gPc = "extract"
  /\ gIdx <= Len(gMatches)
  /\ LET r == ParseJSON(gMatches[gIdx])
     IN /\ gTrace' = Append(gTrace, Invoked("JSON.parse", "extract", gMatches[gIdx], r.ok))
        /\ IF r.ok
           THEN gPc' = "returned" /\ gResult' = Stringify(r.v) /\ UNCHANGED gIdx
           ELSE gIdx' = gIdx + 1 /\ UNCHANGED <<gPc, gResult>>
  /\ UNCHANGED <<gRaw, gContent, gRepaired, gMatches, gError>>

\* A plausible slip: the message of the last candidate's parse error (e).
FormatErrorCauseOfLastAttempt(repaired, matches) ==
  MessageOf(SyntaxErrorOf(IF matches = <<>> THEN repaired ELSE matches[Len(matches)]))

\* The message of the Error thrown after the loop: that of repairParseError.
FormatErrorCause(repaired, matches) == MessageOf(SyntaxErrorOf(repaired))

\* A plausible slip: the loop gives up before its last candidate.
ThrowFormatEarly ==
  /\ gPc = "extract"
  /\ gIdx >= Len(gMatches)
  /\ gPc' = "thrown"
  /\ gError' = WrapError("Groq API Error: ",
                  WrapError("Failed to parse JSON after all repair attempts: ",
                            FormatErrorCause(gRepaired, gMatches)).message)
  /\ UNCHANGED <<gRaw, gContent, gRepaired, gMatches, gIdx, gTrace, gResult>>

\* throw new Error("Failed to parse JSON after all repair attempts: ..."),
\* caught by the outer catch and rethrown as "Groq API Error: ...".
ThrowFormat ==
  /\ gPc = "extract"
  /\ gIdx > Len(gMatches)
  /\ gPc' = "thrown"
  /\ gError' = WrapError("Groq API Error: ",
                  WrapError("Failed to parse JSON after all repair attempts: ",
                            FormatErrorCause(gRepaired, gMatches)).message)
  /\ UNCHANGED <<gRaw, gContent, gRepaired, gMatches, gIdx, gTrace, gResult>>

\* The viewer before it is mounted.
ViewerIdle ==
  /\ content = Undefined
  /\ title = <<>>
  /\ loading = TRUE
  /\ error = ""
  /\ imageUrl = EmptyUrl
  /\ useFallback = FALSE
  /\ mounted = FALSE
  /\ effectThrew = FALSE
  /\ encodeCalls = <<>>
  /\ outcome = "none"

NormInit == NormIdle /\ RepairIdle /\ ViewerIdle /\ RouteIdle

NormNext ==
  \/ ServiceFails /\ UNCHANGED <<repairVars, viewerVars, routeVars>>
  \/ Receive /\ UNCHANGED <<repairVars, viewerVars, routeVars>>
  \/ DirectParse /\ UNCHANGED <<repairVars, viewerVars, routeVars>>
  \/ RepairParse /\ UNCHANGED <<repairVars, viewerVars, routeVars>>
  \/ TryCandidate /\ UNCHANGED <<repairVars, viewerVars, routeVars>>
  \/ ThrowFormat /\ UNCHANGED <<repairVars, viewerVars, routeVars>>

SpecNorm == NormInit /\ [][NormNext]_vars

\* ------------------------------------------------------------------------
\* repairJSON as a function of its input (SpecRepair)
\* ------------------------------------------------------------------------

\* The inputs: up to MaxRepairChunks chunks of RepairChunks, concatenated.
MaxRepairChunks == 4

RepairChunks ==
  {<<"{">>, <<"}">>, <<"[">>, <<"]">>, <<",">>, <<":">>, <<SQ>>, <<"a">>, <<" ">>}

RepairInputs == {Flatten(q) : q \in ChunkSeqs(RepairChunks, MaxRepairChunks)}

RepairInit ==
  /\ NormIdle
  /\ ViewerIdle
  /\ RouteIdle
  /\ rIn \in RepairInputs
  /\ rOut1 = <<>>
  /\ rOut2 = <<>>
  /\ rApplied = 0

\* repairJSON(s)
RepairOnce ==
  /\ rApplied = 0
  /\ rOut1' = repairJSON(rIn)
  /\ rApplied' = 1
  /\ UNCHANGED <<rIn, rOut2>>

\* repairJSON(repairJSON(s))
RepairAgain ==
  /\ rApplied = 1
  /\ rOut2' = repairJSON(rOut1)
  /\ rApplied' = 2
  /\ UNCHANGED <<rIn, rOut1>>

RepairNext ==
  \/ RepairOnce /\ UNCHANGED <<normVars, viewerVars, routeVars>>
  \/ RepairAgain /\ UNCHANGED <<normVars, viewerVars, routeVars>>

SpecRepair == RepairInit /\ [][RepairNext]_vars

\* ------------------------------------------------------------------------
\* PlantUMLViewer as a component (SpecViewer)
\* ------------------------------------------------------------------------

\* The component's state as Effect and Render read it.
ViewerState ==
  [loading |-> loading, error |-> error, imageUrl |-> imageUrl,
   useFallback |-> useFallback, threw |-> effectThrew, calls |-> encodeCalls,
   outcome |-> outcome]

\* The effect runs with the props (c, t) and its state updates are committed.
RunEffect(c, t, primaryOk, fallbackOk) ==
  \E st \in {Effect(ViewerState, c, t, primaryOk, fallbackOk)} :
     /\ content' = c
     /\ title' = t
     /\ loading' = st.loading
     /\ error' = st.error
     /\ imageUrl' = st.imageUrl
     /\ useFallback' = st.useFallback
     /\ effectThrew' = st.threw
     /\ encodeCalls' = st.calls
     /\ outcome' = st.outcome
     /\ mounted' = TRUE

\* The state after construction: the props are given, nothing has run.
ViewerInit ==
  /\ NormIdle
  /\ RepairIdle
  /\ RouteIdle
  /\ content \in ViewerContents
  /\ title \in ViewerTitles
  /\ loading = TRUE
  /\ error = ""
  /\ imageUrl = EmptyUrl
  /\ useFallback = FALSE
  /\ mounted = FALSE
  /\ effectThrew = FALSE
  /\ encodeCalls = <<>>
  /\ outcome = "none"

\* The first run of the effect, after the first render.
MountEffect ==
  /\ ~mounted
  /\ \E primaryOk, fallbackOk \in BOOLEAN : RunEffect(content, title, primaryOk, fallbackOk)

\* The parent passes another content: the component renders again and the
\* effect, which depends on [content], runs with it.
ContentChange ==
  /\ mounted
  /\ \E c \in ViewerContents \ {content} :
       \E primaryOk, fallbackOk \in BOOLEAN : RunEffect(c, title, primaryOk, fallbackOk)

ViewerNext ==
  \/ MountEffect /\ UNCHANGED <<normVars, repairVars, routeVars>>
  \/ ContentChange /\ UNCHANGED <<normVars, repairVars, routeVars>>

SpecViewer == ViewerInit /\ [][ViewerNext]_vars

\* ------------------------------------------------------------------------
\* server/api.js: the routes on the completions the model may return
\* ------------------------------------------------------------------------

\* The sequences of at most n elements of the set S.
RECURSIVE SeqsUpTo(_, _)
SeqsUpTo(S, n) ==
  IF n = 0 THEN {<<>>}
  ELSE LET shorter == SeqsUpTo(S, n - 1)
       IN shorter \cup {Append(q, x) : q \in {y \in shorter : Len(y) = n - 1}, x \in S}

\* The members of ms (key, values) with every choice of value, a choice of
\* JUndefined leaving the key out.
RECURSIVE ObjectsOf(_)
ObjectsOf(ms) ==
  IF ms = <<>> THEN {<<>>}
  ELSE {(IF v = JUndefined THEN <<>> ELSE << <<Head(ms)[1], v>> >>) \o rest :
          v \in Head(ms)[2], rest \in ObjectsOf(Tail(ms))}

\* The outcomes of getGroqCompletion: it throws "Groq API Error: ..." (the
\* service failed, or no stage could parse the completion) or returns the
\* text JSON.stringify wrote for a parsed value.
CompletionOutcomes(values) ==
  {Threw(<<"Groq API Error: ", "service error">>),
   Threw(<<"Groq API Error: ", "Failed to parse JSON after all repair attempts: ",
           "Unexpected end of JSON input">>)}
  \cup {Returned(Stringify(v)) : v \in values}

MaxDiagrams == 2

DiagramEntries ==
  {JObj(<< <<Key.type, JStr(<<"c", "l", "a", "s", "s">>)>>, <<Key.content, JStr(<<"c">>)>> >>),
   JObj(<< <<Key.type, JStr(<<"u", "s", "e", "c", "a", "s", "e">>)>>, <<Key.description, JStr(<<"T", NL, "-", " ", "a">>)>> >>),
   JObj(<< <<Key.content, JStr(<<>>)>>, <<Key.type, JStr(<<"A", "c", "t", "i", "v", "i", "t", "y">>)>>,
           <<Key.description, JStr(<<"T", NL, "b">>)>> >>),
   JObj(<< <<Key.description, JStr(<<"d">>)>> >>),
   JObj(<< <<Key.type, JStr(<<"s", "e", "q", "u", "e", "n", "c", "e">>)>> >>),
   JNull,
   JNum(<<"1">>)}

DocumentValues ==
  {JNull, JArr(<<>>), JStr(<<"x">>)}
  \cup {JObj(ms) : ms \in ObjectsOf(<<
          <<Key.srs, {JUndefined, JStr(<<>>), JStr(<<"s">>)}>>,
          <<Key.frd, {JUndefined, JStr(<<>>), JStr(<<"f">>)}>>,
          <<Key.brd, {JUndefined, JStr(<<>>), JStr(<<"b">>)}>>,
          <<Key.umlDiagrams,
            {JUndefined, JStr(<<"x">>)}
            \cup {JArr(ds) : ds \in SeqsUpTo(DiagramEntries, MaxDiagrams)}>> >>)}

GenerateRequests ==
  {JObj(<<>>), JObj(<< <<Key.requirements, JStr(<<"r">>)>> >>)}

MaxTasks == 2

TaskEntries ==
  {Task(JStr(<<"t">>), JStr(<<"n">>), JStr(<<"d">>), JNum(<<"2">>), JArr(<<JStr(<<"s">>)>>)),
   JObj(<<>>),
   JObj(<< <<Key.id, JNum(<<"0">>)>>, <<Key.name, JStr(<<>>)>>,
           <<Key.estimatedHours, JStr(<<"2">>)>>, <<Key.requiredSkills, JStr(<<"s">>)>> >>),
   JNull,
   JNum(<<"1">>),
   JStr(<<"x">>)}

TaskValues ==
  {JNull, JTrue, JNum(<<"1">>), JStr(<<"x">>), JObj(<<>>),
   JObj(<< <<Key.tasks, JNum(<<"1">>)>> >>), JObj(<< <<Key.id, JStr(<<"t">>)>> >>)}
  \cup {JArr(ts) : ts \in SeqsUpTo(TaskEntries, MaxTasks)}
  \cup {JObj(<< <<Key.tasks, JArr(ts)>> >>) : ts \in SeqsUpTo(TaskEntries, MaxTasks)}

BreakdownRequests ==
  {JObj(<<>>),
   JObj(<< <<Key.documents, JObj(<< <<Key.srs, JStr(<<"s">>)>> >>)>> >>)}

\* getGroqCompletion is awaited only past the check of the request body.
Awaited(body, key, awaited) == IF Truthy(Get(body, key)) THEN awaited ELSE NotCalled

\* POST /api/generate-documents, from the request to the response.
GenerateDocuments ==
  /\ route = "idle"
  /\ \E body \in GenerateRequests, o \in CompletionOutcomes(DocumentValues) :
       /\ route' = "/api/generate-documents"
       /\ reqBody' = body
       /\ completion' = Awaited(body, Key.requirements, o)
       /\ res' = GenerateDocumentsHandler(body, o)

\* POST /api/breakdown-tasks, from the request to the response.
BreakdownTasks ==
  /\ route = "idle"
  /\ \E body \in BreakdownRequests, o \in CompletionOutcomes(TaskValues) :
       /\ route' = "/api/breakdown-tasks"
       /\ reqBody' = body
       /\ completion' = Awaited(body, Key.documents, o)
       /\ res' = BreakdownTasksHandler(body, o)

\* The handler has answered and keeps nothing: the next request finds the
\* routes as the first one did.
RequestDone ==
  /\ route # "idle"
  /\ route' = "idle"
  /\ reqBody' = JUndefined
  /\ completion' = NotCalled
  /\ res' = Response(0, JUndefined)

RoutesInit == NormIdle /\ RepairIdle /\ ViewerIdle /\ RouteIdle

RoutesNext ==
  \/ GenerateDocuments /\ UNCHANGED <<normVars, repairVars, viewerVars>>
  \/ BreakdownTasks /\ UNCHANGED <<normVars, repairVars, viewerVars>>
  \/ RequestDone /\ UNCHANGED <<normVars, repairVars, viewerVars>>

SpecRoutes == RoutesInit /\ [][RoutesNext]_vars

\* ------------------------------------------------------------------------
\* Properties of getGroqCompletion (under SpecNorm)
\* ------------------------------------------------------------------------

StageRank(stage) == CASE stage = "direct" -> 1 [] stage = "repair" -> 2 [] stage = "extract" -> 3

\* The call threw after the completion was received (not a service failure).
FormatThrown == gPc = "thrown" /\ gTrace # <<>>

ParseAttempts == {i \in 1..Len(gTrace) : gTrace[i].op = "JSON.parse"}

\* C1: when the trimmed completion is valid JSON, the call returns the
\* serialisation of the value parsed from it directly (parsing what is
\* returned gives that value back), and the only thing it invoked is that
\* one parse: neither repairJSON nor the balanced-brace match.
C1_ValidJsonShortCircuits ==
  (gPc \notin {"idle", "direct"} /\ ParseJSON(Trim(gRaw)).ok) =>
    /\ gPc = "returned"
    /\ gResult = Stringify(ParseJSON(Trim(gRaw)).v)
    /\ ParseJSON(gResult).ok
    /\ ParseJSON(gResult).v = ParseJSON(Trim(gRaw)).v
    /\ gTrace = <<Invoked("JSON.parse", "direct", Trim(gRaw), TRUE)>>

\* A valid completion whose returned text differs from the text received.
C1_Witness ==
  /\ gPc = "returned"
  /\ ParseJSON(Trim(gRaw)).ok
  /\ Len(gTrace) = 1
  /\ gResult # gRaw
  /\ gResult # Trim(gRaw)

\* C2: the stages run in the order direct parse, repair-then-parse,
\* extraction; whatever has been invoked before the last invocation failed
\* to parse; and the format error is thrown only after the direct parse, the
\* parse of the repaired text and the parse of every candidate have failed.
C2_StagesInOrder ==
  /\ \A i, j \in 1..Len(gTrace) :
       i < j => StageRank(gTrace[i].stage) <= StageRank(gTrace[j].stage)
  /\ \A i \in ParseAttempts :
       /\ gTrace[i].ok = ParseJSON(gTrace[i].text).ok
       /\ i < Len(gTrace) => ~gTrace[i].ok
  /\ gTrace # <<>> => gTrace[1] = Invoked("JSON.parse", "direct", Trim(gRaw), gTrace[1].ok)
  /\ (\E i \in 1..Len(gTrace) : gTrace[i].stage = "extract") =>
       /\ Len(gTrace) >= 4
       /\ gTrace[2] = Invoked("repairJSON", "repair", repairJSON(Trim(gRaw)), TRUE)
       /\ gTrace[3] = Invoked("JSON.parse", "repair", repairJSON(Trim(gRaw)), FALSE)
       /\ gTrace[4] = Invoked("match", "extract", repairJSON(Trim(gRaw)), TRUE)
  /\ FormatThrown =>
       LET cands == JsonMatches(repairJSON(Trim(gRaw)))
       IN /\ ~ParseJSON(Trim(gRaw)).ok
          /\ ~ParseJSON(repairJSON(Trim(gRaw))).ok
          /\ \A k \in 1..Len(cands) : ~ParseJSON(cands[k]).ok
          /\ Len(gTrace) = 4 + Len(cands)
          /\ \A k \in 1..Len(cands) :
               gTrace[4 + k] = Invoked("JSON.parse", "extract", cands[k], FALSE)

\* The format error thrown after two candidates were tried.
C2_Witness == FormatThrown /\ Len(gMatches) >= 2 /\ Len(gTrace) = 4 + Len(gMatches)

\* The last parse attempt the call made.
LastAttempt == gTrace[CHOOSE i \in ParseAttempts : \A j \in ParseAttempts : j <= i]

\* C3 as claimed: the error thrown after all stages failed carries the raw
\* completion and the parse error of the last parse attempt.
C3_Original ==
  FormatThrown =>
    /\ gError.message.src = gRaw
    /\ [gError.message EXCEPT !.prefix = <<>>] = MessageOf(SyntaxErrorOf(LastAttempt.text))

\* C3 as amended: the error thrown after all stages failed is "Groq API
\* Error: Failed to parse JSON after all repair attempts: " followed by the
\* message of the parse error of the repaired text (the second stage), also
\* when extraction candidates were parsed after it.
C3_CarriesRepairParseError ==
  FormatThrown =>
    /\ gError.name = "Error"
    /\ gError.message =
         [MessageOf(SyntaxErrorOf(repairJSON(Trim(gRaw)))) EXCEPT
            !.prefix = <<"Groq API Error: ",
                         "Failed to parse JSON after all repair attempts: ">>]

\* The format error thrown after a candidate failed at another place than
\* the repaired text did.
C3_Witness ==
  /\ FormatThrown
  /\ gMatches # <<>>
  /\ LastAttempt.stage = "extract"
  /\ SyntaxErrorOf(LastAttempt.text).pos # SyntaxErrorOf(gRepaired).pos
  /\ gRepaired # gRaw

\* ------------------------------------------------------------------------
\* Properties of repairJSON (under SpecRepair)
\* ------------------------------------------------------------------------

\* C10: repairJSON is idempotent: applying it to its own output changes
\* nothing, repeated trailing commas included.
C10_RepairIdempotent == rApplied = 2 => rOut2 = rOut1

\* ------------------------------------------------------------------------
\* Properties of PlantUMLViewer (under SpecViewer)
\* ------------------------------------------------------------------------

\* The content is a string that is non-empty after trimming.
NonBlank(c) == c.defined /\ Len(Trim(c.text)) > 0

\* A non-empty absolute URL on one of the two rendering endpoints.
IsEndpointUrl(u) ==
  /\ u.base \in {PLANTUML_SERVER, PLANTUML_SERVER_BACKUP}
  /\ u.sep # ""
  /\ u.payload # <<>>

\* C4 as claimed: for a content that is non-empty after trimming, whatever
\* the encoder does, the effect does not throw outward and ends with
\* imageUrl a non-empty absolute URL on one of the two endpoints.
C4_Original ==
  (mounted /\ NonBlank(content)) => (~effectThrew /\ IsEndpointUrl(imageUrl))

\* C4 as amended: for a content that is non-empty after trimming the effect
\* never throws outward; when the primary encode returns, imageUrl ends as a
\* non-empty URL on the primary endpoint; when it throws and the fallback
\* encode returns, as one on the backup endpoint; when both throw, imageUrl
\* is left as it was (empty on the first run).
C4_ResolvesUnlessBothEncodesFail ==
  [][(mounted' /\ NonBlank(content')) =>
       /\ ~effectThrew'
       /\ outcome' = "primary" =>
            (IsEndpointUrl(imageUrl') /\ imageUrl'.base = PLANTUML_SERVER)
       /\ outcome' = "fallback" =>
            (IsEndpointUrl(imageUrl') /\ imageUrl'.base = PLANTUML_SERVER_BACKUP)
       /\ outcome' = "none" => imageUrl' = imageUrl]_vars

\* Both encodes threw on the first run for a non-blank content: no URL.
C4_Witness ==
  /\ mounted
  /\ NonBlank(content)
  /\ Len(encodeCalls) = 2
  /\ \A i \in 1..2 : ~encodeCalls[i].ok
  /\ imageUrl = EmptyUrl

\* C5: when validation or the primary encode failed and the fallback was
\* encoded, the viewer presents the fallback image and no error message.
C5_FallbackShownNotError ==
  (mounted /\ outcome = "fallback") =>
    /\ Render(ViewerState).view = "image"
    /\ Render(ViewerState).src = imageUrl
    /\ imageUrl.base = PLANTUML_SERVER_BACKUP

ParticipantA == KwParticipant \o <<" ", "A">>

\* The case of C8: "participant A" and neither start nor stop in the content,
\* the encode of the original content failed and that of the fallback returned.
C8_Case ==
  /\ mounted
  /\ content.defined
  /\ Includes(content.text, ParticipantA)
  /\ ~Includes(content.text, KwStart)
  /\ ~Includes(content.text, KwStop)
  /\ outcome = "fallback"

\* The viewer is marked as fallback and its URL is built from the sequence
\* template, a body that contains "participant".
C8_SequenceUrl ==
  /\ useFallback
  /\ Includes(SequenceBody, KwParticipant)
  /\ encodeCalls[Len(encodeCalls)].text = Minimal(title, "sequence")
  /\ imageUrl = BackupUrl(Encoded(Minimal(title, "sequence")))

\* C8 as claimed: in that case the fallback URL is built from the sequence
\* template.
C8_Original == C8_Case => C8_SequenceUrl

\* C8 as amended: the same, for a content that moreover contains, in any
\* letter case, neither "actor" nor "usecase".
C8_SequenceUnlessUsecase ==
  (/\ C8_Case
   /\ ~Includes(ToLowerCase(content.text), KwActor)
   /\ ~Includes(ToLowerCase(content.text), KwUsecase)) => C8_SequenceUrl

C8_Witness ==
  /\ C8_Case
  /\ ~Includes(ToLowerCase(content.text), KwActor)
  /\ ~Includes(ToLowerCase(content.text), KwUsecase)
  /\ encodeCalls[1].branch = "primary"
  /\ useFallback

Occurrences(s, kw) == Cardinality({i \in 1..Len(s) : LitAt(s, i, kw)})

\* C9: the text of every encoder call holds a start and an end marker; the
\* primary text is the content itself when the content holds both markers,
\* and otherwise the content with exactly the missing marker(s) added, so
\* that no marker the content holds is repeated.
C9_DelimitedOnce ==
  \A i \in 1..Len(encodeCalls) :
    LET text == encodeCalls[i].text
        hasStart == Includes(content.text, StartMarker)
        hasEnd == Includes(content.text, EndMarker)
    IN /\ Includes(text, StartMarker)
       /\ Includes(text, EndMarker)
       /\ encodeCalls[i].branch = "primary" =>
            /\ content.defined
            /\ (hasStart /\ hasEnd) => text = content.text
            /\ text = (IF hasStart THEN <<>> ELSE StartMarker \o <<NL>>)
                      \o content.text
                      \o (IF hasEnd THEN <<>> ELSE <<NL>> \o EndMarker)
            /\ Occurrences(text, StartMarker) =
                 (IF hasStart THEN Occurrences(content.text, StartMarker) ELSE 1)
            /\ Occurrences(text, EndMarker) =
                 (IF hasEnd THEN Occurrences(content.text, EndMarker) ELSE 1)

\* A content with both markers went to the encoder unchanged.
C9_Witness ==
  /\ mounted
  /\ Len(encodeCalls) >= 1
  /\ encodeCalls[1].branch = "primary"
  /\ Includes(content.text, StartMarker)
  /\ Includes(content.text, EndMarker)
  /\ encodeCalls[1].text = content.text

\* ------------------------------------------------------------------------
\* Properties of the routes (under SpecRoutes)
\* ------------------------------------------------------------------------

\* The value the route parsed out of the completion it awaited.
Parsed == ParseJSON(completion.v).v

\* generate-documents got a completion whose parsed value fails the
\* validation: srs, frd or brd missing or empty, or umlDiagrams no array.
C6_Case ==
  /\ route = "/api/generate-documents"
  /\ completion # NotCalled
  /\ ~completion.threw
  /\ \/ ~Truthy(Get(Parsed, Key.srs))
     \/ ~Truthy(Get(Parsed, Key.frd))
     \/ ~Truthy(Get(Parsed, Key.brd))
     \/ ~IsArray(Get(Parsed, Key.umlDiagrams))

\* C6 as stated: when the parsed completion fails the secondary validation,
\* generate-documents substitutes a fallback record set and sends no error
\* response.
C6_Original == C6_Case => res.status < 400 /\ Get(res.body, Key.error) = JUndefined

\* C6, amended: when the parsed completion fails the secondary validation,
\* generate-documents substitutes nothing and answers with status 500, the
\* error 'Failed to parse AI response' and the completion text as
\* rawResponse.
C6_FailedValidationIsError ==
  C6_Case =>
    /\ res.status = 500
    /\ Get(res.body, Key.error) = JStr(<<"Failed to parse AI response">>)
    /\ Get(res.body, Key.rawResponse) = JStr(completion.v)
    /\ Get(res.body, Key.srs) = JUndefined
    /\ Get(res.body, Key.umlDiagrams) = JUndefined

\* A completion with frd and an array of completed diagrams but no brd is
\* answered with the error of the validation.
C6_Witness ==
  /\ C6_Case
  /\ Parsed[1] = "obj"
  /\ Truthy(Get(Parsed, Key.srs))
  /\ Truthy(Get(Parsed, Key.frd))
  /\ Get(Parsed, Key.brd) = JUndefined
  /\ IsArray(Get(Parsed, Key.umlDiagrams))
  /\ Len(Get(Parsed, Key.umlDiagrams)[2]) = 1
  /\ res.status = 500
  /\ Get(res.body, Key.details) = JStr(<<"Invalid response structure from AI">>)

WellFormedTask(task) ==
  /\ task[1] = "obj"
  /\ Truthy(Get(task, Key.id))
  /\ Truthy(Get(task, Key.name))
  /\ Truthy(Get(task, Key.description))
  /\ Get(task, Key.estimatedHours)[1] = "num"
  /\ IsArray(Get(task, Key.requiredSkills))

\* breakdown-tasks was asked with a documents object.
C7_Case ==
  /\ route = "/api/breakdown-tasks"
  /\ Truthy(Get(reqBody, Key.documents))

\* C7: once the request carries a documents object, every outcome of the
\* completion call ends in a non-error response (status 200) whose body has
\* a tasks array in which every task has an id, a name, a description, a
\* numeric estimatedHours and an array requiredSkills.
C7_AlwaysWellFormedTasks ==
  C7_Case =>
    /\ res.status = 200
    /\ IsArray(Get(res.body, Key.tasks))
    /\ \A i \in 1..Len(Get(res.body, Key.tasks)[2]) :
         WellFormedTask(Get(res.body, Key.tasks)[2][i])

\* A tasks array that holds a number and an object without fields is
\* answered with two tasks made of the defaults of their indexes.
C7_Witness ==
  /\ C7_Case
  /\ ~completion.threw
  /\ Parsed[1] = "obj"
  /\ IsArray(Get(Parsed, Key.tasks))
  /\ Get(Parsed, Key.tasks)[2] = <<JNum(<<"1">>), JObj(<<>>)>>
  /\ Len(Get(res.body, Key.tasks)[2]) = 2
  /\ Get(Get(res.body, Key.tasks)[2][2], Key.id) = JStr(<<"task_", "2">>)
  /\ Get(Get(res.body, Key.tasks)[2][1], Key.estimatedHours) = JNum(<<"4">>)

\* ------------------------------------------------------------------------
\* Properties of repairJSON's comma insertion (under SpecRepair)
\* ------------------------------------------------------------------------

\* A closing token at i of s is followed, past optional whitespace, by an
\* opening token.
AdjacentPairAt(s, i) ==
  /\ s[i] \in {"}", "]"}
  /\ SkipWs(s, i + 1) <= Len(s)
  /\ s[SkipWs(s, i + 1)] \in {"{", "["}

\* C11: for each of the adjacent pairs }{, ]{, }[ and ][ (optional
\* whitespace between the two tokens) repairJSON inserts a comma between
\* the two tokens and keeps both: every brace and bracket of the text it
\* works on (the slice from the first { to the last }) is still in the
\* output, and no closing token is left next to an opening one.
C11_PairsKeepBothTokens ==
  rApplied >= 1 =>
    /\ \A t \in {"{", "}", "[", "]"} :
         Occurrences(rOut1, <<t>>) = Occurrences(SliceBraces(rIn), <<t>>)
    /\ \A i \in 1..Len(rOut1) : ~AdjacentPairAt(rOut1, i)

\* ------------------------------------------------------------------------
\* Properties of simplifyUml (under SpecViewer)
\* ------------------------------------------------------------------------

\* The last run of the effect passed a fallback text to the encoder.
FallbackEncoded ==
  /\ mounted
  /\ content.defined
  /\ encodeCalls # <<>>
  /\ encodeCalls[Len(encodeCalls)].branch = "fallback"

\* The fallback text is the minimal diagram of the type: the template body
\* of that type under the title given to the viewer.
FallbackIs(diagramType) ==
  /\ encodeCalls[Len(encodeCalls)].text = Minimal(title, diagramType)
  /\ \A other \in {"usecase", "sequence", "activity", "component", "class"} \ {diagramType} :
       encodeCalls[Len(encodeCalls)].text # Minimal(title, other)

\* Whether the lower-cased content holds the keyword.
Has(kw) == Includes(ToLowerCase(content.text), kw)

\* C12: the fallback classifier takes the first rule that matches the
\* lower-cased original content, in the order usecase (actor or usecase),
\* sequence (participant or ->), activity (start and stop), component
\* (component), else class, and the fallback text is the template of that
\* type; nothing but the content chooses it.
C12_FirstMatchingRule ==
  FallbackEncoded =>
    LET usecase == Has(KwActor) \/ Has(KwUsecase)
        sequence == Has(KwParticipant) \/ Has(KwArrow)
        activity == Has(KwStart) /\ Has(KwStop)
        component == Has(KwComponent)
    IN /\ usecase => FallbackIs("usecase")
       /\ (~usecase /\ sequence) => FallbackIs("sequence")
       /\ (~usecase /\ ~sequence /\ activity) => FallbackIs("activity")
       /\ (~usecase /\ ~sequence /\ ~activity /\ component) => FallbackIs("component")
       /\ (~usecase /\ ~sequence /\ ~activity /\ ~component) => FallbackIs("class")

\* A content with an arrow between start and stop, and none of the use-case
\* words, got the sequence template: the earlier rule won.
C12_Witness ==
  /\ FallbackEncoded
  /\ Has(KwArrow)
  /\ Has(KwStart)
  /\ Has(KwStop)
  /\ ~Has(KwActor)
  /\ ~Has(KwUsecase)
  /\ FallbackIs("sequence")

\* ------------------------------------------------------------------------
\* Properties of the viewer's state across content changes (under SpecViewer)
\* ------------------------------------------------------------------------

\* imageUrl is the backup-endpoint URL of the fallback template of the
\* current content.
ShowsFallbackOfContent ==
  /\ content.defined
  /\ imageUrl = BackupUrl(Encoded(Minimal(title, DetectType(content.text))))

\* C13: after any sequence of content changes the state reflects only the
\* most recent content: useFallback is true exactly when imageUrl is the
\* backup URL built from the fallback template, and an error is recorded
\* only if resolving the most recent content failed (no error and no
\* fallback flag are left after a resolve that succeeded).
C13_StateOfLatestContent ==
  mounted =>
    /\ useFallback <=> ShowsFallbackOfContent
    /\ error # "" => outcome # "primary"
    /\ outcome = "primary" => (~useFallback /\ Render(ViewerState).view = "image")

\* ------------------------------------------------------------------------
\* Properties of the diagrams of generate-documents (under SpecRoutes)
\* ------------------------------------------------------------------------

\* generate-documents got a completion whose srs, frd and brd are valid and
\* whose umlDiagrams is an array.
C14_Case ==
  /\ route = "/api/generate-documents"
  /\ completion # NotCalled
  /\ ~completion.threw
  /\ Truthy(Get(Parsed, Key.srs))
  /\ Truthy(Get(Parsed, Key.frd))
  /\ Truthy(Get(Parsed, Key.brd))
  /\ IsArray(Get(Parsed, Key.umlDiagrams))

\* C14: each umlDiagrams entry is processed independently of its siblings:
\* an entry that cannot be completed (no content, and no usable type or
\* description to generate it from) neither changes the outcome of the
\* other entries, which are answered as they are completed alone, nor turns
\* the response into an error response.
C14_EntriesIndependent ==
  C14_Case =>
    LET entries == Get(Parsed, Key.umlDiagrams)[2]
        answered == Get(res.body, Key.umlDiagrams)
    IN /\ res.status = 200
       /\ IsArray(answered)
       /\ \A i \in 1..Len(entries) :
            ~MapDiagram(entries[i]).threw =>
              \E j \in 1..Len(answered[2]) : answered[2][j] = MapDiagram(entries[i]).v

====
